---- MODULE Spec2Model ----
(***************************************************************************)
(* Model of multi_query (src/main.py, src/db.py): one GUI thread submits   *)
(* a query to the selected stands through a shared queue, worker threads   *)
(* execute the tasks against the stands' adapters and persist one row per  *)
(* task in the internal SQLite storage.                                    *)
(*                                                                         *)
(* Texts (the query entry, the fetch-size entry) are sequences of one-     *)
(* character strings.  Python's recursion in PostgresDB.fetchmany is       *)
(* modelled as a loop over the worker's position (the interpreter's        *)
(* recursion limit is not modelled).  The created_at column is left out.   *)
(***************************************************************************)
EXTENDS Integers, Sequences, FiniteSets, Bags, TLC

VARIABLES
    gui,           \* the GUI thread inside Wgui.create_tasks
    q,             \* queue.Queue of QueryTask
    user_query,    \* table user_query, row id = index
    query_result,  \* table query_result: a bag of rows (ids and order left out)
    worker,        \* the worker threads: position and locals of execute_query
    db,            \* stands[name].db: connection / client and reconnects
    open,          \* per stand, the underlying connections opened and not closed
    hist           \* history of the running submission and of adapter calls

vars == <<gui, q, user_query, query_result, worker, db, open, hist>>

-----------------------------------------------------------------------------
(* Bounds *)

\* the number of queries the user submits successfully
MaxQueries == 2
\* the value at which the count of reconnections of one task saturates
CountCap == 2

\* the number of stored queries and of stands per stored query, for the
\* read paths
MaxListed == 27
MaxStands == 3
\* the number of entries of config["connections"] when the registry is built
MaxEntries == 3
\* the longest stored query text, two characters past the preview's prefix
MaxContent == 52

\* config.json: "max_queue_size" and "num_workers" (main.py 470-471)
MAX_QUEUE_SIZE == 2
NUM_WORKERS == 2

-----------------------------------------------------------------------------
(* Syntax, stands *)

SQL == 0
MONGO == 1
Syntax == {SQL, MONGO}

syntax_map == [sqlite |-> SQL, postgres |-> SQL, mongo |-> MONGO]

\* config["connections"] in file order: name and vendor of each stand
connections ==
    << [name |-> "pg", vendor |-> "postgres"],
       [name |-> "sq1", vendor |-> "sqlite"],
       [name |-> "mg", vendor |-> "mongo"] >>

StandNames == {connections[i].name : i \in 1..Len(connections)}

\* Stand(name, vendor, db): vendor and syntax of a registered stand
stands ==
    [n \in StandNames |->
        LET c == connections[CHOOSE i \in 1..Len(connections) : connections[i].name = n]
        IN  [name |-> n, vendor |-> c.vendor, syntax |-> syntax_map[c.vendor]]]

Workers == 1..NUM_WORKERS

Min(a, b) == IF a < b THEN a ELSE b

-----------------------------------------------------------------------------
(* Text helpers: str.strip, str.casefold, str.startswith, slicing *)

Whitespace == {" ", "\n", "\t"}

UpperChars == <<"A","B","C","D","E","F","G","H","I","J","K","L","M",
                "N","O","P","Q","R","S","T","U","V","W","X","Y","Z">>
LowerChars == <<"a","b","c","d","e","f","g","h","i","j","k","l","m",
                "n","o","p","q","r","s","t","u","v","w","x","y","z">>

casefold_char(c) ==
    IF \E i \in 1..26 : UpperChars[i] = c
    THEN LowerChars[CHOOSE i \in 1..26 : UpperChars[i] = c]
    ELSE c

casefold(t) == [i \in 1..Len(t) |-> casefold_char(t[i])]

RECURSIVE lstrip(_)
lstrip(t) == IF t # <<>> /\ Head(t) \in Whitespace THEN lstrip(Tail(t)) ELSE t

RECURSIVE rstrip(_)
rstrip(t) ==
    IF t # <<>> /\ t[Len(t)] \in Whitespace THEN rstrip(SubSeq(t, 1, Len(t) - 1)) ELSE t

strip(t) == rstrip(lstrip(t))

startswith(t, p) == Len(t) >= Len(p) /\ SubSeq(t, 1, Len(p)) = p

slice(t, n) == SubSeq(t, 1, Min(n, Len(t)))

-----------------------------------------------------------------------------
(* int(): optional sign and decimal digits, ValueError otherwise *)

Digits == <<"0","1","2","3","4","5","6","7","8","9">>
IsDigit(c) == \E i \in 1..10 : Digits[i] = c
DigitVal(c) == (CHOOSE i \in 1..10 : Digits[i] = c) - 1

RECURSIVE digits_value(_)
digits_value(t) ==
    IF t = <<>> THEN 0
    ELSE 10 * digits_value(SubSeq(t, 1, Len(t) - 1)) + DigitVal(t[Len(t)])

int_ok(t) ==
    LET s == strip(t)
        body == IF s # <<>> /\ Head(s) \in {"-", "+"} THEN Tail(s) ELSE s
    IN  body # <<>> /\ \A i \in 1..Len(body) : IsDigit(body[i])

int(t) ==
    LET s == strip(t)
        neg == s # <<>> /\ Head(s) = "-"
        body == IF s # <<>> /\ Head(s) \in {"-", "+"} THEN Tail(s) ELSE s
    IN  IF neg THEN 0 - digits_value(body) ELSE digits_value(body)

\* Wgui.is_positive_int
is_positive_int(entry_value) ==
    IF ~int_ok(entry_value) THEN FALSE
    ELSE IF int(entry_value) < 1 THEN FALSE
    ELSE TRUE

-----------------------------------------------------------------------------
(* json.loads on the entry text: a recogniser for JSON values without      *)
(* escapes, fractions or exponents.  Each operator returns the index after *)
(* what it read, or 0 for JSONDecodeError.                                 *)

RECURSIVE skip_ws(_, _)
skip_ws(t, i) == IF i <= Len(t) /\ t[i] \in Whitespace THEN skip_ws(t, i + 1) ELSE i

RECURSIVE scan_quote(_, _)
scan_quote(t, i) ==
    IF i > Len(t) THEN 0 ELSE IF t[i] = "\"" THEN i + 1 ELSE scan_quote(t, i + 1)

json_string(t, i) == IF i <= Len(t) /\ t[i] = "\"" THEN scan_quote(t, i + 1) ELSE 0

RECURSIVE scan_digits(_, _)
scan_digits(t, i) == IF i <= Len(t) /\ IsDigit(t[i]) THEN scan_digits(t, i + 1) ELSE i

json_number(t, i) ==
    LET s == IF t[i] = "-" THEN i + 1 ELSE i
        e == scan_digits(t, s)
    IN  IF e = s THEN 0
        ELSE IF t[s] = "0" /\ e > s + 1 THEN s + 1
        ELSE e

json_literal(t, i) ==
    LET rest == SubSeq(t, i, Len(t))
    IN  IF startswith(rest, <<"t","r","u","e">>) THEN i + 4
        ELSE IF startswith(rest, <<"n","u","l","l">>) THEN i + 4
        ELSE IF startswith(rest, <<"f","a","l","s","e">>) THEN i + 5
        ELSE 0

RECURSIVE json_value(_, _)
RECURSIVE json_pairs(_, _)
RECURSIVE json_items(_, _)

json_pairs(t, i) ==
    LET k == skip_ws(t, i)
        s == json_string(t, k)
        c == skip_ws(t, s)
        v == json_value(t, c + 1)
        d == skip_ws(t, v)
    IN  IF s = 0 \/ c > Len(t) \/ t[c] # ":" THEN 0
        ELSE IF v = 0 \/ d > Len(t) THEN 0
        ELSE IF t[d] = "," THEN json_pairs(t, d + 1)
        ELSE IF t[d] = "}" THEN d + 1
        ELSE 0

json_items(t, i) ==
    LET v == json_value(t, i)
        d == skip_ws(t, v)
    IN  IF v = 0 \/ d > Len(t) THEN 0
        ELSE IF t[d] = "," THEN json_items(t, d + 1)
        ELSE IF t[d] = "]" THEN d + 1
        ELSE 0

json_value(t, i) ==
    LET k == skip_ws(t, i)
    IN  IF k > Len(t) THEN 0
        ELSE IF t[k] = "{"
             THEN LET m == skip_ws(t, k + 1)
                  IN  IF m <= Len(t) /\ t[m] = "}" THEN m + 1 ELSE json_pairs(t, k + 1)
        ELSE IF t[k] = "["
             THEN LET m == skip_ws(t, k + 1)
                  IN  IF m <= Len(t) /\ t[m] = "]" THEN m + 1 ELSE json_items(t, k + 1)
        ELSE IF t[k] = "\"" THEN json_string(t, k)
        ELSE IF t[k] = "-" \/ IsDigit(t[k]) THEN json_number(t, k)
        ELSE json_literal(t, k)

\* json.loads(text) returns (TRUE) or raises JSONDecodeError (FALSE)
json_loads_ok(t) ==
    LET e == json_value(t, 1)
    IN  e # 0 /\ skip_ws(t, e) = Len(t) + 1

\* the parsed value is a dict
json_is_object(t) == json_loads_ok(t) /\ t[skip_ws(t, 1)] = "{"

-----------------------------------------------------------------------------
(* SyntaxHighlighter.is_valid_entry: "" for True, else the error shown     *)

DataEditWords ==
    { <<"i","n","s","e","r","t"," ">>, <<"u","p","d","a","t","e"," ">>,
      <<"d","e","l","e","t","e"," ">> }
SchemaEditWords ==
    { <<"d","r","o","p"," ">>, <<"a","l","t","e","r"," ">>,
      <<"c","r","e","a","t","e"," ">>, <<"c","o","m","m","e","n","t"," ">> }
TruncateWord == <<"t","r","u","n","c","a","t","e"," ">>

is_valid_entry(user_entry, selected_stands, chosen_syntax) ==
    LET selected_syntaxes ==
            {stands[selected_stands[i]].syntax : i \in 1..Len(selected_stands)}
        entry_slice == casefold(slice(user_entry, 9))
    IN  IF Len(user_entry) = 0 THEN "empty_entry"
        ELSE IF Cardinality(selected_syntaxes) > 1 THEN "mixed_syntaxes"
        ELSE IF chosen_syntax \notin selected_syntaxes THEN "syntax_mismatch"
        ELSE IF chosen_syntax = SQL
             THEN IF \E w \in DataEditWords : startswith(entry_slice, w) THEN "data_edit"
                  ELSE IF \E w \in SchemaEditWords : startswith(entry_slice, w)
                       THEN "schema_edit"
                  ELSE IF entry_slice = TruncateWord THEN "truncate"
                  ELSE ""
        ELSE IF ~json_loads_ok(user_entry) THEN "bad_json"
        ELSE ""

\* Wgui.get_user_entry: the entry is stripped before it is validated
get_user_entry(entry, selected_stands, chosen_syntax) ==
    is_valid_entry(strip(entry), selected_stands, chosen_syntax)

\* Wgui.get_fetch_size: "" when a positive int was entered, else the error
get_fetch_size(fetch_size) ==
    IF fetch_size = <<>> THEN "empty_fetch_size"
    ELSE IF ~is_positive_int(fetch_size) THEN "bad_fetch_size"
    ELSE ""

ValidationErrors ==
    { "empty_fetch_size", "bad_fetch_size", "no_stands", "empty_entry",
      "mixed_syntaxes", "syntax_mismatch", "data_edit", "schema_edit",
      "truncate", "bad_json" }

\* selected_stands: the checked stands in registry order
selected_list(sel) ==
    LET names == [i \in 1..Len(connections) |-> connections[i].name]
        IsSel(n) == n \in sel
    IN  SelectSeq(names, IsSel)

-----------------------------------------------------------------------------
(* Inputs of the GUI *)

T_select == <<"s","e","l","e","c","t"," ","1">>
T_delete == <<"D","E","L","E","T","E"," ","F","R","O","M"," ","t">>
T_obj == <<"{","}">>
T_badjson == <<"{","b","a","d">>
T_num == <<"1">>

\* what the user enters: the syntax radio button and the query text
EntryInputs ==
    { [syntax |-> SQL, entry |-> <<>>],
      [syntax |-> SQL, entry |-> T_select],
      [syntax |-> SQL, entry |-> T_delete],
      [syntax |-> MONGO, entry |-> T_select],
      [syntax |-> MONGO, entry |-> T_obj],
      [syntax |-> MONGO, entry |-> T_badjson],
      [syntax |-> MONGO, entry |-> T_num] }

FetchSizes == { <<>>, <<"x">>, <<"0">>, <<"2">> }

\* the sets of checked stands the user submits
Selections ==
    { {}, {"pg"}, {"mg"}, {"pg", "mg"}, {"pg", "sq1"} }

-----------------------------------------------------------------------------
(* Backends: what each stand's store holds, and the values Python's json   *)
(* module cannot encode (datetime, Decimal, bytes, ObjectId)               *)

\* the tables a query on each stand can return
backend_tables ==
    [pg  |-> { << [id |-> "1"], [id |-> "2"], [id |-> "3"] >> },
     sq1 |-> { << [a |-> "1"] >> },
     mg  |-> { << [_id |-> "OID", at |-> "DT"] >>, << [_id |-> "OID", n |-> "DEC"] >> }]

NonJson == {"BLOB", "OID", "DT", "DEC"}

\* What the driver's connect call does on each stand: "ok", or "error"
\* (psycopg.OperationalError / sqlite3.OperationalError, made a DBError).
connect_outcomes ==
    [pg |-> {"ok", "error"}, sq1 |-> {"ok"}, mg |-> {"ok"}]

\* What executing a query does on each stand: "rows"; "error", an exception
\* the adapter makes a DBError; "closed", psycopg's "the connection is
\* closed"; "raise", any other exception of the driver.
execute_outcomes ==
    [pg  |-> {"rows", "error", "closed", "raise"},
     sq1 |-> {"rows", "error"},
     mg  |-> {"rows", "error", "raise"}]

\* MongoDB.to_serializable on one document
to_serializable(result) ==
    [k \in DOMAIN result |->
        IF result[k] = "OID" THEN "str(OID)"
        ELSE IF result[k] = "DT" THEN "isoformat(DT)"
        ELSE result[k]]

\* cursor.fetchmany(size) / find(...).limit(size)
take(rows, size) == SubSeq(rows, 1, Min(size, Len(rows)))

\* json.dumps(result): TRUE when every value can be encoded
json_dumps_ok(result) ==
    \A i \in 1..Len(result) : \A k \in DOMAIN result[i] : result[i][k] \notin NonJson

\* json.dumps(result, ...) of a list of objects with string keys and
\* encodable values: the text determines the list, which stands for it here
json_dumps(result) == result

\* [{"error": str(e)}]
error_result(message) == << [error |-> message] >>

-----------------------------------------------------------------------------
(* State *)

NoTask == [stand_name |-> "", query_id |-> 0, query |-> <<>>, size |-> 0]

\* QueryTask(stand_name, query_id, query, size)
QueryTask(stand_name, query_id, query, size) ==
    [stand_name |-> stand_name, query_id |-> query_id, query |-> query, size |-> size]

\* storage: the worker's own Storage(INTERNAL_DB) handle, "open" between its
\* connect() and its close()
IdleWorker ==
    [pc |-> "get", task |-> NoTask, h |-> 0, result |-> <<>>, is_error |-> 0,
     tries |-> 0, exc |-> "", storage |-> "none"]

IdleGui == [pc |-> "idle", msg |-> "", query_id |-> 0, pending |-> <<>>,
            user_query |-> <<>>, size |-> 0]

Init ==
    /\ gui = IdleGui
    /\ q = <<>>
    /\ user_query = <<>>
    /\ query_result = EmptyBag
    /\ worker = [w \in Workers |-> IdleWorker]
    /\ db = [s \in StandNames |-> [connection |-> 0, reconnects |-> 0]]
    /\ open = [s \in StandNames |-> {}]
    /\ hist = [sel |-> <<>>, enq |-> <<>>, k |-> 0, dequeued |-> FALSE,
               done |-> {}]

vendor_of(w) == stands[worker[w].task.stand_name].vendor
stand_of(w) == worker[w].task.stand_name

Bump(n) == Min(n + 1, CountCap)

-----------------------------------------------------------------------------
(* Storage *)

\* Storage.save_query
save_query(syntax, query, stands_number) ==
    Append(user_query, [stands_number |-> stands_number, syntax |-> syntax,
                        content |-> query])

\* mark_incomplete as an UPDATE without its WHERE clause
mark_incomplete_every(query_id) ==
    [i \in DOMAIN user_query |-> [user_query[i] EXCEPT !.stands_number = -1]]

\* Storage.mark_incomplete
mark_incomplete(query_id) ==
    [user_query EXCEPT ![query_id].stands_number = -1]

\* save_result with the INSERT executed twice
save_result_twice(query_id, is_error, stand_name, result) ==
    query_result (+) SetToBag({[query_id |-> query_id, is_error |-> is_error,
                                stand_name |-> stand_name,
                                result_json |-> json_dumps(result)]})
                 (+) SetToBag({[query_id |-> query_id, is_error |-> is_error,
                                stand_name |-> stand_name,
                                result_json |-> json_dumps(result)]})

\* save_result as a REPLACE of the whole table by the new row
save_result_replacing(query_id, is_error, stand_name, result) ==
    SetToBag({[query_id |-> query_id, is_error |-> is_error,
               stand_name |-> stand_name,
               result_json |-> json_dumps(result)]})

\* Storage.save_result
save_result(query_id, is_error, stand_name, result) ==
    query_result (+) SetToBag({[query_id |-> query_id, is_error |-> is_error,
                                stand_name |-> stand_name,
                                result_json |-> json_dumps(result)]})

-----------------------------------------------------------------------------
(* GUI thread: Wgui.create_tasks *)

\* messagebox.showerror("Ошибка", ...) for every validation error,
\* messagebox.showinfo("Инфо", ...) for the full queue: the box is modal, and
\* the state keeps its kind
dialog_kind(message) == IF message \in ValidationErrors THEN "showerror" ELSE "showinfo"

ShowDialog(message) ==
    gui' = [IdleGui EXCEPT !.pc = "dialog", !.msg = dialog_kind(message)]

\* create_tasks with save_query moved above the validation of the entry
create_tasks_saves_first ==
    /\ gui.pc = "idle"
    /\ \E fetch_size \in FetchSizes :
         IF get_fetch_size(fetch_size) # ""
         THEN ShowDialog(get_fetch_size(fetch_size)) /\ UNCHANGED <<user_query, hist>>
         ELSE \E sel \in Selections :
           LET selected_stands == selected_list(sel)
           IN  IF selected_stands = <<>>
               THEN ShowDialog("no_stands") /\ UNCHANGED <<user_query, hist>>
               ELSE \E input \in EntryInputs :
                 LET chosen_syntax == input.syntax
                     entry_error == get_user_entry(input.entry, selected_stands,
                                                   chosen_syntax)
                     user_entry == strip(input.entry)
                 IN  /\ Len(user_query) < MaxQueries
                     /\ user_query' = save_query(chosen_syntax, user_entry,
                                                 Len(selected_stands))
                     /\ hist' = [hist EXCEPT !.sel = Append(@, selected_stands),
                                             !.enq = Append(@, <<>>),
                                             !.k = Len(q), !.dequeued = FALSE]
                     /\ IF entry_error # ""
                        THEN ShowDialog(entry_error)
                        ELSE gui' = [pc |-> "enqueue", msg |-> "",
                                     query_id |-> Len(user_query'),
                                     pending |-> selected_stands,
                                     user_query |-> user_entry,
                                     size |-> int(fetch_size)]
    /\ UNCHANGED <<q, query_result, worker, db, open>>

\* the handler up to and including save_query (main.py 371-388); the
\* fetch-size entry, the checkboxes, the syntax choice and the query entry
\* are read in the order the code reads them
create_tasks ==
    /\ gui.pc = "idle"
    /\ \E fetch_size \in FetchSizes :
         IF get_fetch_size(fetch_size) # ""
         THEN ShowDialog(get_fetch_size(fetch_size)) /\ UNCHANGED <<user_query, hist>>
         ELSE \E sel \in Selections :
           LET selected_stands == selected_list(sel)
           IN  IF selected_stands = <<>>
               THEN ShowDialog("no_stands") /\ UNCHANGED <<user_query, hist>>
               ELSE \E input \in EntryInputs :
                 LET chosen_syntax == input.syntax
                     entry_error == get_user_entry(input.entry, selected_stands,
                                                   chosen_syntax)
                     user_entry == strip(input.entry)
                 IN  IF entry_error # ""
                     THEN ShowDialog(entry_error) /\ UNCHANGED <<user_query, hist>>
                     ELSE /\ Len(user_query) < MaxQueries
                          /\ user_query' = save_query(chosen_syntax, user_entry,
                                                      Len(selected_stands))
                          /\ gui' = [pc |-> "enqueue", msg |-> "",
                                     query_id |-> Len(user_query'),
                                     pending |-> selected_stands,
                                     user_query |-> user_entry,
                                     size |-> int(fetch_size)]
                          /\ hist' = [hist EXCEPT !.sel = Append(@, selected_stands),
                                                  !.enq = Append(@, <<>>),
                                                  !.k = Len(q), !.dequeued = FALSE]
    /\ UNCHANGED <<q, query_result, worker, db, open>>

\* the loop without the call of mark_incomplete
enqueue_next_unmarked ==
    /\ gui.pc = "enqueue"
    /\ gui.pending # <<>>
    /\ IF Len(q) < MAX_QUEUE_SIZE
       THEN /\ q' = Append(q, QueryTask(Head(gui.pending), gui.query_id,
                                        gui.user_query, gui.size))
            /\ gui' = IF Tail(gui.pending) = <<>> THEN IdleGui
                      ELSE [gui EXCEPT !.pending = Tail(@)]
            /\ hist' = [hist EXCEPT !.enq[gui.query_id] = Append(@, Head(gui.pending)),
                                    !.k = IF Tail(gui.pending) = <<>> THEN 0 ELSE @,
                                    !.dequeued = IF Tail(gui.pending) = <<>> THEN FALSE ELSE @]
            /\ UNCHANGED user_query
       ELSE /\ UNCHANGED user_query
            /\ ShowDialog("queue_full")
            /\ UNCHANGED <<q, hist>>
    /\ UNCHANGED <<query_result, worker, db, open>>

\* the loop with the capacity test "q.qsize() <= MAX_QUEUE_SIZE"
enqueue_next_one_more ==
    /\ gui.pc = "enqueue"
    /\ gui.pending # <<>>
    /\ IF Len(q) <= MAX_QUEUE_SIZE
       THEN /\ q' = Append(q, QueryTask(Head(gui.pending), gui.query_id,
                                        gui.user_query, gui.size))
            /\ gui' = IF Tail(gui.pending) = <<>> THEN IdleGui
                      ELSE [gui EXCEPT !.pending = Tail(@)]
            /\ hist' = [hist EXCEPT !.enq[gui.query_id] = Append(@, Head(gui.pending)),
                                    !.k = IF Tail(gui.pending) = <<>> THEN 0 ELSE @,
                                    !.dequeued = IF Tail(gui.pending) = <<>> THEN FALSE ELSE @]
            /\ UNCHANGED user_query
       ELSE /\ user_query' = mark_incomplete(gui.query_id)
            /\ ShowDialog("queue_full")
            /\ UNCHANGED <<q, hist>>
    /\ UNCHANGED <<query_result, worker, db, open>>

\* one iteration of the loop over selected_stands (main.py 389-404)
enqueue_next ==
    /\ gui.pc = "enqueue"
    /\ gui.pending # <<>>
    /\ IF Len(q) < MAX_QUEUE_SIZE
       THEN /\ q' = Append(q, QueryTask(Head(gui.pending), gui.query_id,
                                        gui.user_query, gui.size))
            /\ gui' = IF Tail(gui.pending) = <<>> THEN IdleGui
                      ELSE [gui EXCEPT !.pending = Tail(@)]
            /\ hist' = [hist EXCEPT !.enq[gui.query_id] = Append(@, Head(gui.pending)),
                                    !.k = IF Tail(gui.pending) = <<>> THEN 0 ELSE @,
                                    !.dequeued = IF Tail(gui.pending) = <<>> THEN FALSE ELSE @]
            /\ UNCHANGED user_query
       ELSE /\ user_query' = mark_incomplete(gui.query_id)
            /\ ShowDialog("queue_full")
            /\ UNCHANGED <<q, hist>>
    /\ UNCHANGED <<query_result, worker, db, open>>

\* the user closes the modal message box
dismiss ==
    /\ gui.pc = "dialog"
    /\ gui' = IdleGui
    /\ hist' = [hist EXCEPT !.k = 0, !.dequeued = FALSE]
    /\ UNCHANGED <<q, user_query, query_result, worker, db, open>>

-----------------------------------------------------------------------------
(* Underlying connections.  A connection object is a number; one that is   *)
(* referenced neither by its adapter nor by a worker's cursor is finalised *)
(* and leaves `open`.                                                      *)

ids(s) == {c.id : c \in open[s]}

\* the thread that created an open connection (0: the connection is closed)
owner(s, id) == IF id \in ids(s) THEN (CHOOSE c \in open[s] : c.id = id).by ELSE 0

NewId(s) ==
    LET used == ids(s) \cup {db[s].connection}
                       \cup {worker[v].h : v \in {u \in Workers : worker[u].task.stand_name = s}}
    IN  CHOOSE n \in 1..(NUM_WORKERS + 2) :
            /\ n \notin used
            /\ \A m \in 1..(n - 1) : m \in used

\* the step's effect on one worker, the adapters and the connections
Effect(w, wrec, dbs, opn) ==
    /\ worker' = [worker EXCEPT ![w] = wrec]
    /\ db' = dbs
    /\ open' = [s \in StandNames |->
                   {c \in opn[s] :
                       \/ c.id = dbs[s].connection
                       \/ \E v \in Workers :
                            worker'[v].h = c.id /\ worker'[v].task.stand_name = s}]

\* except DBError in execute_query: result = [{"error": str(e)}], is_error = 1
Caught(w, message) ==
    [worker[w] EXCEPT !.pc = "save", !.h = 0, !.result = error_result(message),
                      !.is_error = 1]

\* an exception that is no DBError leaves execute_query and ends the thread
Uncaught(w, origin) ==
    [IdleWorker EXCEPT !.pc = "dead", !.exc = origin,
                       !.storage = IF origin = "storage" THEN "open" ELSE "none"]

Ended(w) == hist' = [hist EXCEPT !.done = @ \cup {<<worker[w].task.query_id,
                                                   worker[w].task.stand_name>>}]

-----------------------------------------------------------------------------
(* Worker threads: worker / execute_query and the adapters' methods *)

\* the dequeue of a LIFO queue
get_newest(w) ==
    /\ worker[w].pc = "get"
    /\ q # <<>>
    /\ q' = SubSeq(q, 1, Len(q) - 1)
    /\ worker' = [worker EXCEPT ![w] = [IdleWorker EXCEPT !.pc = "connect",
                                                          !.task = q[Len(q)]]]
    /\ hist' = [hist EXCEPT !.dequeued = @ \/ gui.pc = "enqueue"]
    /\ UNCHANGED <<gui, user_query, query_result, db, open>>

\* query_task = q.get()
get(w) ==
    /\ worker[w].pc = "get"
    /\ q # <<>>
    /\ q' = Tail(q)
    /\ worker' = [worker EXCEPT ![w] = [IdleWorker EXCEPT !.pc = "connect", !.task = Head(q)]]
    /\ hist' = [hist EXCEPT !.dequeued = @ \/ gui.pc = "enqueue"]
    /\ UNCHANGED <<gui, user_query, query_result, db, open>>

\* stand.db.connect(): "if self.connection: return None"
connect(w) ==
    /\ worker[w].pc = "connect"
    /\ worker' = [worker EXCEPT ![w].pc =
                     IF db[stand_of(w)].connection # 0 THEN "fetch" ELSE "open"]
    /\ UNCHANGED <<gui, q, user_query, query_result, db, open, hist>>

\* psycopg.connect / sqlite3.connect / pymongo.MongoClient and the
\* assignment of self.connection; from reconnect() the counter is then
\* incremented (set to 0 by connect, plus 1)
driver_connect(w, from_pc, after) ==
    /\ worker[w].pc = from_pc
    /\ \E o \in connect_outcomes[stand_of(w)] :
         LET s == stand_of(w)
             id == NewId(s)
         IN  CASE o = "ok" ->
                    /\ Effect(w, [worker[w] EXCEPT !.pc = "fetch"],
                              [db EXCEPT ![s] = [connection |-> id, reconnects |-> after]],
                              [open EXCEPT ![s] = @ \cup {[id |-> id, by |-> w]}])
                    /\ UNCHANGED hist
               [] o = "error" ->
                    /\ Effect(w, Caught(w, "connection_error"), db, open)
                    /\ UNCHANGED hist
               [] o = "raise" ->
                    /\ Effect(w, Uncaught(w, "adapter"), db, open)
                    /\ Ended(w)
    /\ UNCHANGED <<gui, q, user_query, query_result>>

\* the connection is opened by connect() called from execute_query
open_connection(w) == driver_connect(w, "open", 0)

\* the connection is opened by connect() called from PostgresDB.reconnect
\* (reconnects = 0, then reconnects += 1) or from SQLiteDB.fetchmany
reopen_connection(w) ==
    driver_connect(w, "ropen", IF vendor_of(w) = "postgres" THEN 1 ELSE 0)

\* fetchmany entry: "if not self.connection" (postgres, sqlite), the assert
\* (mongo); otherwise a cursor is taken on the current connection
fetchmany(w) ==
    /\ worker[w].pc = "fetch"
    /\ LET s == stand_of(w)
           v == vendor_of(w)
       IN  IF db[s].connection # 0
           THEN /\ Effect(w, [worker[w] EXCEPT !.pc = "exec", !.h = db[s].connection],
                          db, open)
                /\ UNCHANGED hist
           ELSE IF v = "postgres"
           THEN /\ Effect(w, [worker[w] EXCEPT !.pc = "reconnect"], db, open)
                /\ UNCHANGED hist
           ELSE IF v = "sqlite"
           THEN /\ Effect(w, [worker[w] EXCEPT !.pc = "rconnect"], db, open)
                /\ UNCHANGED hist
           ELSE /\ Effect(w, Uncaught(w, "adapter"), db, open)
                /\ Ended(w)
    /\ UNCHANGED <<gui, q, user_query, query_result>>

\* PostgresDB.reconnect up to time.sleep(5)
reconnect(w) ==
    /\ worker[w].pc = "reconnect"
    /\ IF db[stand_of(w)].reconnects > 3
       THEN Effect(w, Caught(w, "reconnects_exceeded"), db, open)
       ELSE Effect(w, [worker[w] EXCEPT !.pc = "rconnect", !.tries = Bump(@)], db, open)
    /\ UNCHANGED <<gui, q, user_query, query_result, hist>>

\* connect() inside reconnect() / SQLiteDB.fetchmany: "if self.connection:
\* return None", after which reconnect() does reconnects += 1
connect_again(w) ==
    /\ worker[w].pc = "rconnect"
    /\ LET s == stand_of(w)
       IN  IF db[s].connection # 0
           THEN Effect(w, [worker[w] EXCEPT !.pc = "fetch"],
                       [db EXCEPT ![s].reconnects =
                           IF vendor_of(w) = "postgres" THEN @ + 1 ELSE @],
                       open)
           ELSE Effect(w, [worker[w] EXCEPT !.pc = "ropen"], db, open)
    /\ UNCHANGED <<gui, q, user_query, query_result, hist>>

-----------------------------------------------------------------------------
(* cur.execute(query) and cur.fetchmany(size) on the cursor's connection   *)

Returned(w, rows) ==
    [worker[w] EXCEPT !.pc = "save", !.h = 0, !.result = rows, !.is_error = 0]

\* PostgresDB.fetchmany, the try block (db.py 60-72)
postgres_execute(w) ==
    /\ worker[w].pc = "exec"
    /\ vendor_of(w) = "postgres"
    /\ LET s == stand_of(w)
           h == worker[w].h
           retry == [worker[w] EXCEPT !.pc = "fetch", !.h = 0]
       IN  \/ /\ h \notin ids(s)
              \* "the connection is closed": self.connection = None, fetchmany again
              /\ Effect(w, retry, [db EXCEPT ![s].connection = 0], open)
              /\ UNCHANGED hist
           \/ /\ h \in ids(s)
              /\ \E o \in execute_outcomes[s] :
                   CASE o = "rows" ->
                          /\ \E rows \in backend_tables[s] :
                               Effect(w, Returned(w, take(rows, worker[w].task.size)),
                                      db, open)
                          /\ UNCHANGED hist
                     [] o = "error" ->
                          \* OperationalError / ProgrammingError -> DBError
                          /\ Effect(w, Caught(w, "query_error"), db, open)
                          /\ UNCHANGED hist
                     [] o = "closed" ->
                          \* the backend has closed the connection
                          /\ Effect(w, retry, [db EXCEPT ![s].connection = 0],
                                    [open EXCEPT ![s] = {c \in @ : c.id # h}])
                          /\ UNCHANGED hist
                     [] o = "raise" ->
                          \* any other psycopg.Error (DataError, ...)
                          /\ Effect(w, Uncaught(w, "adapter"), db, open)
                          /\ Ended(w)
    /\ UNCHANGED <<gui, q, user_query, query_result>>

\* SQLiteDB.close called by thread w: sqlite3 refuses a connection that
\* another thread created (check_same_thread)
close_state(w, s) ==
    LET cur == db[s].connection
    IN  IF cur = 0 THEN [raised |-> FALSE, db |-> db, open |-> open]
        ELSE IF cur \in ids(s) /\ owner(s, cur) # w
        THEN [raised |-> TRUE, db |-> db, open |-> open]
        ELSE [raised |-> FALSE, db |-> [db EXCEPT ![s].connection = 0],
              open |-> [open EXCEPT ![s] = {c \in @ : c.id # cur}]]

\* SQLiteDB.fetchmany, the try block with "finally: self.close()" (db.py 150-161)
sqlite_execute(w) ==
    /\ worker[w].pc = "exec"
    /\ vendor_of(w) = "sqlite"
    /\ LET s == stand_of(w)
           h == worker[w].h
           cs == close_state(w, s)
       IN  \/ /\ h \notin ids(s) \/ owner(s, h) # w
              \* sqlite3.ProgrammingError: closed, or created in another thread
              /\ Effect(w, Uncaught(w, "adapter"), cs.db, cs.open)
              /\ Ended(w)
           \/ /\ owner(s, h) = w
              /\ \E o \in execute_outcomes[s] :
                   CASE cs.raised \/ o = "raise" ->
                          \* close() raised in finally, or an exception that is no
                          \* sqlite3.OperationalError (cur.description is None, ...)
                          /\ Effect(w, Uncaught(w, "adapter"), cs.db, cs.open)
                          /\ Ended(w)
                     [] ~cs.raised /\ o = "rows" ->
                          /\ \E rows \in backend_tables[s] :
                               Effect(w, Returned(w, take(rows, worker[w].task.size)),
                                      cs.db, cs.open)
                          /\ UNCHANGED hist
                     [] ~cs.raised /\ o = "error" ->
                          /\ Effect(w, Caught(w, "query_error"), cs.db, cs.open)
                          /\ UNCHANGED hist
    /\ UNCHANGED <<gui, q, user_query, query_result>>

\* MongoDB.fetchmany (db.py 98-105): only ServerSelectionTimeoutError
\* becomes DBError
mongo_execute(w) ==
    /\ worker[w].pc = "exec"
    /\ vendor_of(w) = "mongo"
    /\ LET s == stand_of(w)
       IN  \/ /\ ~json_is_object(worker[w].task.query)
              \* find() raises TypeError: the filter is no dict
              /\ Effect(w, Uncaught(w, "adapter"), db, open)
              /\ Ended(w)
           \/ /\ json_is_object(worker[w].task.query)
              /\ \E o \in execute_outcomes[s] :
                   CASE o = "rows" ->
                          /\ \E rows \in backend_tables[s] :
                               LET docs == take(rows, worker[w].task.size)
                               IN  Effect(w, Returned(w, [i \in 1..Len(docs) |->
                                                            to_serializable(docs[i])]),
                                          db, open)
                          /\ UNCHANGED hist
                     [] o = "error" ->
                          /\ Effect(w, Caught(w, "query_error"), db, open)
                          /\ UNCHANGED hist
                     [] o = "raise" ->
                          \* OperationFailure and other pymongo errors
                          /\ Effect(w, Uncaught(w, "adapter"), db, open)
                          /\ Ended(w)
    /\ UNCHANGED <<gui, q, user_query, query_result>>

\* execute_query, main.py 444-447: Storage(INTERNAL_DB), connect,
\* save_result, close; json.dumps raises TypeError on a value it cannot
\* encode, and then close() is not reached
store_result(w) ==
    /\ worker[w].pc = "save"
    /\ IF json_dumps_ok(worker[w].result)
       THEN /\ query_result' = save_result(worker[w].task.query_id, worker[w].is_error,
                                           worker[w].task.stand_name, worker[w].result)
            /\ Effect(w, IdleWorker, db, open)
       ELSE /\ Effect(w, Uncaught(w, "storage"), db, open)
            /\ UNCHANGED query_result
    /\ Ended(w)
    /\ UNCHANGED <<gui, q, user_query>>

-----------------------------------------------------------------------------
(* Specifications *)

WorkerStep(w) ==
    \/ get(w)
    \/ connect(w)
    \/ open_connection(w)
    \/ fetchmany(w)
    \/ reconnect(w)
    \/ connect_again(w)
    \/ reopen_connection(w)
    \/ postgres_execute(w)
    \/ sqlite_execute(w)
    \/ mongo_execute(w)
    \/ store_result(w)

Next ==
    \/ create_tasks
    \/ enqueue_next
    \/ dismiss
    \/ \E w \in Workers : WorkerStep(w)

Spec == Init /\ [][Next]_vars

\* threads are scheduled fairly; the user is not obliged to act
FairSpec ==
    /\ Spec
    /\ WF_vars(enqueue_next)
    /\ \A w \in Workers : WF_vars(WorkerStep(w))

-----------------------------------------------------------------------------
(* Derived views *)

RECURSIVE copies(_)
copies(rows) ==
    IF rows = {} THEN 0
    ELSE LET r == CHOOSE x \in rows : TRUE
         IN  CopiesIn(r, query_result) + copies(rows \ {r})

\* COUNT(r.id) of the rows of one query / of one task
result_count(query_id) ==
    copies({r \in BagToSet(query_result) : r.query_id = query_id})

task_result_count(query_id, stand_name) ==
    copies({r \in BagToSet(query_result) :
               r.query_id = query_id /\ r.stand_name = stand_name})

QueryIds == 1..Len(user_query)

stands_number_of(query_id) ==
    IF query_id \in QueryIds THEN user_query[query_id].stands_number ELSE 0

\* the number of tasks create_tasks has put on the queue for one query
enqueued_of(query_id) ==
    IF query_id \in 1..Len(hist.enq) THEN Len(hist.enq[query_id]) ELSE 0

cut_short(query_id) == stands_number_of(query_id) = -1

\* task t was put on the queue before task u: an earlier submission, or the
\* same submission and an earlier stand of selected_stands
enqueued_before(t, u) ==
    LET position(task) ==
            CHOOSE i \in 1..Len(hist.sel[task.query_id]) :
                hist.sel[task.query_id][i] = task.stand_name
    IN  \/ t.query_id < u.query_id
        \/ t.query_id = u.query_id /\ position(t) < position(u)

in_adapter(w) ==
    worker[w].pc \in {"connect", "open", "fetch", "reconnect", "rconnect", "ropen", "exec"}

-----------------------------------------------------------------------------
(* Read path: Storage.latest_queries, shown by Wgui.refresh_results *)

\* LIMIT 25
LIMIT == 25

\* ORDER BY q.id DESC
RECURSIVE order_by_id_desc(_)
order_by_id_desc(keys) ==
    IF keys = {} THEN <<>>
    ELSE LET m == CHOOSE x \in keys : \A y \in keys : y <= x
         IN  <<m>> \o order_by_id_desc(keys \ {m})

\* REPLACE(content, '\n', ' '), cut to 50 characters plus '...'
preview(content) ==
    LET flat == [i \in 1..Len(content) |-> IF content[i] = "\n" THEN " " ELSE content[i]]
    IN  IF Len(flat) < 50 THEN flat ELSE SubSeq(flat, 1, 50) \o <<".", ".", ".">>

\* the progress column with ">= 0" in place of "> 0"
progress_eager(stands_number, c) ==
    IF stands_number = -1 THEN <<"queue is full">>
    ELSE IF stands_number - c >= 0
    THEN <<"running (", c, "/", stands_number, ")">>
    ELSE <<"done">>

\* CASE WHEN q.stands_number = -1 ... WHEN q.stands_number - COUNT(r.id) > 0
\* ... END: 'Заполнена очередь' (the queue is full), 'Выполняется (' || c ||
\* '/' || stands_number || ')' (running), 'Готово' (done)
progress(stands_number, c) ==
    IF stands_number = -1 THEN <<"queue is full">>
    ELSE IF stands_number - c > 0
    THEN <<"running (", c, "/", stands_number, ")">>
    ELSE <<"done">>

\* one row of the grouped join: q.id, content, progress
listed_row(id) ==
    [id |-> id, content |-> preview(user_query[id].content),
     progress |-> progress(user_query[id].stands_number, result_count(id))]

\* the query without its LIMIT clause
latest_queries_unlimited ==
    LET ordered == order_by_id_desc(DOMAIN user_query)
    IN  [i \in 1..Len(ordered) |-> listed_row(ordered[i])]

\* Storage.latest_queries
latest_queries ==
    LET ordered == order_by_id_desc(DOMAIN user_query)
    IN  [i \in 1..Min(Len(ordered), LIMIT) |-> listed_row(ordered[i])]

\* the stand names of the stored results
ViewStands == <<"a", "b", "c", "d">>

\* a store of n queries: the latest one with stands_number sn and c results,
\* every earlier one with one stand and its result
stored_queries(n, sn) ==
    [i \in 1..n |-> [stands_number |-> IF i = n THEN sn ELSE 1, syntax |-> SQL,
                     content |-> T_select]]

stored_results(n, c) ==
    SetToBag({[query_id |-> i, is_error |-> 0, stand_name |-> ViewStands[1],
               result_json |-> json_dumps(<<>>)] : i \in 1..(n - 1)}
             \cup {[query_id |-> n, is_error |-> 0, stand_name |-> ViewStands[k],
                    result_json |-> json_dumps(<<>>)] : k \in 1..c})

\* everything but the GUI and the store is at rest
AtRest ==
    /\ q = <<>>
    /\ worker = [w \in Workers |-> IdleWorker]
    /\ db = [s \in StandNames |-> [connection |-> 0, reconnects |-> 0]]
    /\ open = [s \in StandNames |-> {}]
    /\ hist = [sel |-> <<>>, enq |-> <<>>, k |-> 0, dequeued |-> FALSE,
               done |-> {}]

ViewInit ==
    /\ gui = [pc |-> "idle", displayed_results |-> <<>>]
    /\ \E n \in 0..MaxListed :
         \E sn \in {-1} \cup 1..MaxStands :
           \E c \in 0..MaxStands :
              /\ n = 0 => sn = 1 /\ c = 0
              /\ sn # -1 => c <= sn
              /\ user_query = stored_queries(n, sn)
              /\ query_result = stored_results(n, c)
    /\ AtRest

\* Wgui.refresh_results: the rows of latest_queries become the labels
refresh_results ==
    /\ gui.pc = "idle"
    /\ gui' = [pc |-> "results", displayed_results |-> latest_queries]
    /\ UNCHANGED <<q, user_query, query_result, worker, db, open, hist>>

ViewNext == refresh_results

ViewSpec == ViewInit /\ [][ViewNext]_vars

-----------------------------------------------------------------------------
(* Read path: the content column of Storage.latest_queries *)

\* a stored text of n characters with a line break at position p (none if
\* p is outside 1..n)
content_text(n, p) == [i \in 1..n |-> IF i = p THEN "\n" ELSE "x"]

\* the stored texts: every length up to MaxContent, a line break nowhere, at
\* the start, around the 50th character or at the end
PreviewTexts ==
    {content_text(n, p) : n \in 1..MaxContent, p \in {0, 1, 49, 50, 51, MaxContent}}

\* a store holding one query with one of the texts
PreviewInit ==
    /\ gui = [pc |-> "idle", displayed_results |-> <<>>]
    /\ \E text \in PreviewTexts :
          user_query = <<[stands_number |-> 1, syntax |-> SQL, content |-> text]>>
    /\ query_result = EmptyBag
    /\ AtRest

PreviewNext == refresh_results

PreviewSpec == PreviewInit /\ [][PreviewNext]_vars

-----------------------------------------------------------------------------
(* Read path: Wgui.export_result and Wgui.make_pivot *)

\* the columns of the stored records in their order
Columns == <<"_id", "a", "b", "error">>

\* next(iter(record.values())): the value of the first column
first_value(record) ==
    record[Columns[CHOOSE i \in 1..Len(Columns) :
                      /\ Columns[i] \in DOMAIN record
                      /\ \A j \in 1..(i - 1) : Columns[j] \notin DOMAIN record]]

\* json.loads(result_json), the inverse of json_dumps
json_loads(result_json) == result_json

\* Storage.results_by_query_id: (stand_name, result_json) of the query's rows.
\* The SELECT has no ORDER BY and the rows were inserted in the order in which
\* the workers finished the tasks: every order of the rows is possible
results_by_query_id(query_id) ==
    LET found == {r \in BagToSet(query_result) : r.query_id = query_id}
    IN  {order \in [1..Cardinality(found) -> found] :
            \A i, j \in 1..Cardinality(found) : i # j => order[i] # order[j]}

\* Storage.query_by_id
query_by_id(query_id) ==
    <<user_query[query_id].syntax, user_query[query_id].content>>

\* Wgui.make_pivot: the test reads results[0] only; r[1][0] of a stand
\* without rows raises IndexError
make_pivot(results) ==
    IF /\ results # <<>>
       /\ Len(results[1][2]) = 1
       /\ Cardinality(DOMAIN results[1][2][1]) = 1
    THEN IF \E i \in 1..Len(results) : results[i][2] = <<>>
         THEN [returns |-> "IndexError", list |-> <<>>]
         ELSE [returns |-> "list",
               list |-> [i \in 1..Len(results) |->
                            <<results[i][1], first_value(results[i][2][1])>>]]
    ELSE [returns |-> "None", list |-> <<>>]

\* the worksheets of the stands, in the order of results
stand_sheets(results) ==
    [i \in 1..Len(results) |-> [name |-> results[i][1], rows |-> results[i][2]]]

\* the result sets a stand's row can hold
R_one == << [a |-> "1"] >>
R_empty == << >>
R_two_fields == << [a |-> "1", b |-> "2"] >>
R_two_records == << [a |-> "1"], [a |-> "2"] >>
R_error == << [error |-> "query_error"] >>
ResultSets == {R_one, R_empty, R_two_fields, R_two_records, R_error}

\* a store with one query and one Result row per selected stand
ExportInit ==
    /\ gui = [pc |-> "idle"]
    /\ \E n \in 1..MaxStands :
         \E sets \in [1..n -> ResultSets] :
           \E syntax \in Syntax :
              /\ user_query = << [stands_number |-> n, syntax |-> syntax,
                                  content |-> IF syntax = SQL THEN T_select ELSE T_obj] >>
              /\ query_result =
                   SetToBag({[query_id |-> 1,
                              is_error |-> IF sets[i] = R_error THEN 1 ELSE 0,
                              stand_name |-> ViewStands[i],
                              result_json |-> json_dumps(sets[i])] : i \in 1..n})
    /\ AtRest

\* Wgui.export_result(query_id): the workbook that is written
export_result ==
    /\ gui.pc = "idle"
    /\ \E query_id \in DOMAIN user_query :
         \E query_results \in results_by_query_id(query_id) :
           LET query_syntax == query_by_id(query_id)[1]
               results == [i \in 1..Len(query_results) |->
                              <<query_results[i].stand_name,
                                json_loads(query_results[i].result_json)>>]
               pivot == IF query_syntax = SQL THEN make_pivot(results)
                        ELSE [returns |-> "None", list |-> <<>>]
           IN  gui' = IF pivot.returns = "IndexError"
                      THEN [pc |-> "exported", query_id |-> query_id,
                            raised |-> TRUE, pivot |-> <<>>, sheets |-> <<>>]
                      ELSE [pc |-> "exported", query_id |-> query_id,
                            raised |-> FALSE, pivot |-> pivot.list,
                            sheets |-> stand_sheets(results)]
    /\ UNCHANGED <<q, user_query, query_result, worker, db, open, hist>>

ExportNext == export_result

ExportSpec == ExportInit /\ [][ExportNext]_vars

-----------------------------------------------------------------------------
(* Validation of the relational entry on its own: Wgui.get_user_entry *)

\* the statements is_valid_entry looks for
Keywords ==
    {SubSeq(w, 1, Len(w) - 1) : w \in DataEditWords \cup SchemaEditWords \cup {TruncateWord}}

upper(t) ==
    [i \in 1..Len(t) |->
        IF \E k \in 1..26 : LowerChars[k] = t[i]
        THEN UpperChars[CHOOSE k \in 1..26 : LowerChars[k] = t[i]]
        ELSE t[i]]

\* what the user types: a statement in lower or upper case, after nothing or
\* a space, followed by a space, a tab, a line break or nothing, and then by
\* a table name or nothing
EntryTexts ==
    {lead \o word \o follower \o rest :
        lead \in {<<>>, <<" ">>},
        word \in Keywords \cup {upper(k) : k \in Keywords},
        follower \in {<<" ">>, <<"\t">>, <<"\n">>, <<>>},
        rest \in {<<>>, <<"t">>}}
    \cup {T_select, upper(T_select), T_delete}

EntryInit ==
    /\ \E entry \in EntryTexts : gui = [pc |-> "idle", entry |-> entry, error |-> ""]
    /\ user_query = <<>>
    /\ query_result = EmptyBag
    /\ AtRest

\* get_user_entry for the SQL radio button and the checked stand "pg"
validate_entry ==
    /\ gui.pc = "idle"
    /\ gui' = [gui EXCEPT !.pc = "validated",
                          !.error = get_user_entry(gui.entry, <<"pg">>, SQL)]
    /\ UNCHANGED <<q, user_query, query_result, worker, db, open, hist>>

EntryNext == validate_entry

EntrySpec == EntryInit /\ [][EntryNext]_vars

-----------------------------------------------------------------------------
(* Start-up: Wgui.create_stands, new_db, Stand *)

\* PostgresDB / SQLiteDB / MongoDB .required_keys
required_keys ==
    [postgres |-> {"dbname", "user", "password", "host", "port"},
     sqlite |-> {"dbname"},
     mongo |-> {"host", "db", "collection"}]

is_correct_config(config, keys) == keys \subseteq DOMAIN config

\* new_db(config): the adapter class that is built, or the exception raised
new_db(config) ==
    IF "vendor" \notin DOMAIN config THEN [raises |-> "KeyError", db |-> ""]
    ELSE IF config.vendor \in DOMAIN required_keys
    THEN IF is_correct_config(config, required_keys[config.vendor])
         THEN [raises |-> "", db |-> config.vendor]
         ELSE [raises |-> "KeyError", db |-> ""]
    ELSE [raises |-> "ValueError", db |-> ""]

\* Stand(name, vendor, db)
Stand(name, vendor, adapter) ==
    [name |-> name, vendor |-> vendor, syntax |-> syntax_map[vendor], db |-> adapter]

\* the entries a configuration file can hold
ConfigEntries ==
    { [vendor |-> "postgres", dbname |-> "d", user |-> "u", password |-> "p",
       host |-> "h", port |-> "5432"],
      [vendor |-> "sqlite", dbname |-> "d"],
      [vendor |-> "mongo", host |-> "h", db |-> "d", collection |-> "c"],
      [dbname |-> "d"],
      [vendor |-> "oracle", dbname |-> "d"],
      [vendor |-> "postgres", dbname |-> "d", user |-> "u", password |-> "p",
       host |-> "h"],
      [vendor |-> "mongo", host |-> "h", db |-> "d"] }

\* the names of the entries, in file order
ConfigNames == <<"s1", "s2", "s3", "s4">>

RegistryInit ==
    /\ \E n \in 1..MaxEntries :
         \E entries \in [1..n -> ConfigEntries] :
            gui = [pc |-> "create_stands", connections |-> entries, i |-> 1,
                   stands |-> <<>>, reported |-> <<>>]
    /\ user_query = <<>>
    /\ query_result = EmptyBag
    /\ AtRest

\* one iteration of the loop, with an except clause that does not match
create_stands_aborting ==
    /\ gui.pc = "create_stands"
    /\ LET name == ConfigNames[gui.i]
           connection == gui.connections[gui.i]
           built == new_db(connection)
       IN  gui' = IF built.raises # ""
                  THEN [gui EXCEPT !.pc = "aborted"]
                  ELSE [gui EXCEPT
                          !.stands = Append(@, Stand(name, connection.vendor, built.db)),
                          !.i = @ + 1,
                          !.pc = IF gui.i = Len(gui.connections)
                                 THEN "created" ELSE "create_stands"]
    /\ UNCHANGED <<q, user_query, query_result, worker, db, open, hist>>

\* one iteration of the loop of Wgui.create_stands
create_stands ==
    /\ gui.pc = "create_stands"
    /\ LET name == ConfigNames[gui.i]
           connection == gui.connections[gui.i]
           built == new_db(connection)
           next_pc == IF gui.i = Len(gui.connections) THEN "created" ELSE "create_stands"
       IN  gui' = IF built.raises # ""
                  THEN [gui EXCEPT !.reported = Append(@, <<name, built.raises>>),
                                   !.i = @ + 1, !.pc = next_pc]
                  ELSE [gui EXCEPT
                          !.stands = Append(@, Stand(name, connection.vendor, built.db)),
                          !.i = @ + 1, !.pc = next_pc]
    /\ UNCHANGED <<q, user_query, query_result, worker, db, open, hist>>

RegistryNext == create_stands

RegistrySpec == RegistryInit /\ [][RegistryNext]_vars

-----------------------------------------------------------------------------
(* Claims *)

\* C1: under fair scheduling every submitted query eventually has as many
\* Result rows as its stands_number, unless its stands_number is the
\* sentinel: no enqueued task is lost, whatever the adapter does.
C1_EveryTaskProducesResult ==
    \A query_id \in 1..MaxQueries :
        (query_id \in QueryIds)
            ~> (\/ stands_number_of(query_id) = -1
                \/ result_count(query_id) = stands_number_of(query_id))

\* C2: a (query id, stand name) pair never has more than one Result row,
\* and has exactly one once the execution of its task has ended.
C2_ExactlyOneResultPerTask ==
    \A query_id \in QueryIds, s \in StandNames :
        /\ task_result_count(query_id, s) <= 1
        /\ <<query_id, s>> \in hist.done => task_result_count(query_id, s) = 1

\* C3: a create_tasks call that ends in a validation error leaves the
\* tables and the queue as they were.
C3_RejectedSubmissionPersistsNothing ==
    [][gui.pc = "idle" /\ gui'.pc = "dialog" /\ gui'.msg = "showerror"
         => UNCHANGED <<user_query, query_result, q>>]_vars

C3_Witness ==
    /\ gui.pc = "dialog" /\ gui.msg = "showerror"
    /\ Len(user_query) >= 1 /\ Len(q) >= 1 /\ query_result # EmptyBag

\* C4: a submission of n stands that starts with k tasks queued, n > C - k,
\* and runs with no dequeue in between enqueues exactly its first C - k
\* stands, sets stands_number to the sentinel and tells the user.
C4_AdmissionIsQueryScoped ==
    [][( /\ gui.pc = "enqueue" /\ gui'.pc # "enqueue"
         /\ ~hist.dequeued
         /\ Len(hist.sel[gui.query_id]) > MAX_QUEUE_SIZE - hist.k )
         => /\ hist'.enq[gui.query_id] =
                  SubSeq(hist.sel[gui.query_id], 1, MAX_QUEUE_SIZE - hist.k)
            /\ user_query'[gui.query_id].stands_number = -1
            /\ gui'.pc = "dialog" /\ gui'.msg = "showinfo"]_vars

C4_Witness ==
    /\ gui.pc = "dialog" /\ gui.msg = "showinfo"
    /\ ~hist.dequeued /\ hist.k = 1
    /\ Len(hist.sel[Len(user_query)]) = 2
    /\ hist.enq[Len(user_query)] = <<"pg">>
    /\ user_query[Len(user_query)].stands_number = -1

\* C5: the queue never holds more than max_queue_size tasks.
C5_QueueBounded == Len(q) <= MAX_QUEUE_SIZE

C5_Witness ==
    /\ Len(q) = MAX_QUEUE_SIZE
    /\ gui.pc = "enqueue"
    /\ \E w \in Workers : in_adapter(w)

\* C6: once a submission was cut short with j tasks enqueued, nothing more
\* is enqueued for it, there are never more than j Result rows for it, and
\* eventually there are exactly j.
C6_CutShortTasksStillRun ==
    /\ [](\A query_id \in 1..MaxQueries :
            cut_short(query_id) => result_count(query_id) <= enqueued_of(query_id))
    /\ [][\A query_id \in 1..MaxQueries :
            cut_short(query_id) => enqueued_of(query_id)' = enqueued_of(query_id)]_vars
    /\ \A query_id \in 1..MaxQueries :
            cut_short(query_id) ~> (result_count(query_id) = enqueued_of(query_id))

\* C7: every adapter failure is captured: an error row holds exactly one
\* synthetic record, a success row holds the returned records, and no
\* failure of an adapter leaves execute_query.
C7_AdapterFailuresCaptured ==
    /\ \A w \in Workers : worker[w].exc # "adapter"
    /\ \A r \in BagToSet(query_result) :
          IF r.is_error = 1
          THEN Len(r.result_json) = 1 /\ DOMAIN r.result_json[1] = {"error"}
          ELSE \A i \in 1..Len(r.result_json) : "error" \notin DOMAIN r.result_json[i]

\* C8: no two workers are inside connect()/fetchmany() of the same stand's
\* adapter at the same time.
C8_AdapterCallsSerialized ==
    \A w1, w2 \in Workers :
        w1 # w2 /\ in_adapter(w1) /\ in_adapter(w2) => stand_of(w1) # stand_of(w2)

\* C9: every retry of PostgresDB.reconnect increments the reconnect
\* counter, so that the retries are bounded by it.
C9_RetryCounted ==
    [][\A w \in Workers :
          worker[w].pc = "ropen" /\ worker'[w].pc # "ropen" /\ vendor_of(w) = "postgres"
          => db'[stand_of(w)].reconnects = db[stand_of(w)].reconnects + 1]_vars

\* C10: one fetchmany call re-establishes the connection at most once.
C10_AtMostOneReconnection ==
    \A w \in Workers : worker[w].tries <= 1

\* C11: connect() on an adapter that holds a connection opens no second
\* one and keeps the held one; close() leaves the adapter without a
\* connection (SQLiteDB.fetchmany calls close() in its finally clause).
C11_ConnectCloseIdempotent ==
    [][\A w \in Workers :
          /\ ( /\ worker[w].pc = "connect" /\ worker'[w].pc # "connect"
               /\ db[stand_of(w)].connection # 0 )
             => /\ db'[stand_of(w)].connection = db[stand_of(w)].connection
                /\ open'[stand_of(w)] = open[stand_of(w)]
          /\ ( /\ worker[w].pc = "exec" /\ worker'[w].pc # "exec"
               /\ vendor_of(w) = "sqlite" )
             => db'[stand_of(w)].connection = 0]_vars

\* C12: each listed query's progress is the queue-full label if its
\* stands_number is the sentinel, "running (c/stands_number)" if its c Result
\* rows are fewer than stands_number, and "done" otherwise.
C12_ProgressDerivedAtRead ==
    gui.pc = "results" =>
        \A i \in 1..Len(gui.displayed_results) :
            LET row == gui.displayed_results[i]
                sn == user_query[row.id].stands_number
                c == result_count(row.id)
            IN  row.progress =
                   IF sn = -1 THEN <<"queue is full">>
                   ELSE IF c < sn THEN <<"running (", c, "/", sn, ")">>
                   ELSE <<"done">>

C12_Witness ==
    /\ gui.pc = "results"
    /\ \E i \in 1..Len(gui.displayed_results) :
          gui.displayed_results[i].progress = <<"running (", 2, "/", 3, ")">>

\* C13: latest_queries returns at most 25 rows, one per query, strictly
\* descending by id, and they are the queries with the largest ids.
C13_ListRecent ==
    gui.pc = "results" =>
        LET rows == gui.displayed_results
            n == Len(user_query)
        IN  /\ Len(rows) <= 25
            /\ Len(rows) = Min(n, 25)
            /\ \A i \in 1..Len(rows) : rows[i].id = n - i + 1

C13_Witness ==
    /\ gui.pc = "results"
    /\ Len(user_query) > 25
    /\ Len(gui.displayed_results) = 25
    /\ result_count(gui.displayed_results[1].id) = 3

\* C14: for a relational query the export holds a pivot only when every
\* stand's result is exactly one record with exactly one field; otherwise it
\* holds the per-stand tables only.
C14_PivotOnlyWhenAllSingle ==
    (gui.pc = "exported" /\ user_query[gui.query_id].syntax = SQL) =>
        LET stored == {r \in BagToSet(query_result) : r.query_id = gui.query_id}
            single(r) == /\ Len(r.result_json) = 1
                         /\ Cardinality(DOMAIN r.result_json[1]) = 1
        IN  /\ ~gui.raised
            /\ Len(gui.sheets) = Cardinality(stored)
            /\ gui.pivot # <<>> <=> \A r \in stored : single(r)

\* C15: a relational entry is rejected exactly when, leading whitespace and
\* case aside, it begins with insert, update, delete, drop, alter, create,
\* comment or truncate followed by a space, a tab, a line break or the end of
\* the text.
C15_ForbiddenStatementsRejected ==
    gui.pc = "validated" =>
        LET text == casefold(lstrip(gui.entry))
            forbidden ==
                \E k \in Keywords :
                    /\ startswith(text, k)
                    /\ Len(text) = Len(k) \/ text[Len(k) + 1] \in Whitespace
        IN  forbidden <=> gui.error \in {"data_edit", "schema_edit", "truncate"}

\* C16: a query's stands_number is the positive number of stands selected
\* at its submission or the sentinel; a Query row changes only by becoming
\* the sentinel, during its own submission, and never changes again.
C16_StandsNumberOrSentinel ==
    /\ [](\A query_id \in QueryIds :
            /\ Len(hist.sel[query_id]) >= 1
            /\ user_query[query_id].stands_number \in {Len(hist.sel[query_id]), -1})
    /\ [][/\ Len(user_query') >= Len(user_query)
          /\ \A query_id \in QueryIds :
                user_query'[query_id] # user_query[query_id]
                => /\ user_query[query_id].stands_number >= 1
                   /\ user_query'[query_id] =
                         [user_query[query_id] EXCEPT !.stands_number = -1]
                   /\ gui.pc = "enqueue" /\ gui.query_id = query_id]_vars

C16_Witness ==
    /\ Len(user_query) = 2
    /\ user_query[1].stands_number = 1
    /\ user_query[2].stands_number = -1
    /\ Len(hist.sel[2]) = 2
    /\ gui.pc = "idle"

\* C17: the registry is always built to the end: the entries with no
\* vendor, an unsupported vendor or a missing required key are reported and
\* left out, every other entry is registered, in file order, with the syntax
\* class of its vendor.
C17_RegistrySkipsMalformed ==
    LET well_formed(c) ==
            /\ "vendor" \in DOMAIN c
            /\ c.vendor \in {"postgres", "sqlite", "mongo"}
            /\ c.vendor = "postgres" =>
                  {"dbname", "user", "password", "host", "port"} \subseteq DOMAIN c
            /\ c.vendor = "sqlite" => "dbname" \in DOMAIN c
            /\ c.vendor = "mongo" => {"host", "db", "collection"} \subseteq DOMAIN c
        good(k) == {i \in 1..k : well_formed(gui.connections[i])}
        names(t) == {t[i].name : i \in 1..Len(t)}
    IN  /\ gui.pc \in {"create_stands", "created"}
        /\ gui.pc = "created" <=> gui.i = Len(gui.connections) + 1
        /\ names(gui.stands) = {ConfigNames[i] : i \in good(gui.i - 1)}
        /\ Len(gui.stands) = Cardinality(good(gui.i - 1))
        /\ {gui.reported[i][1] : i \in 1..Len(gui.reported)} =
              {ConfigNames[i] : i \in (1..(gui.i - 1)) \ good(gui.i - 1)}
        /\ \A j \in 1..Len(gui.stands) :
              /\ gui.stands[j].syntax =
                    IF gui.stands[j].vendor = "mongo" THEN MONGO ELSE SQL
              /\ \E i \in good(gui.i - 1) :
                    /\ ConfigNames[i] = gui.stands[j].name
                    /\ gui.connections[i].vendor = gui.stands[j].vendor

C17_Witness ==
    /\ gui.pc = "created"
    /\ Len(gui.connections) = 3
    /\ "vendor" \notin DOMAIN gui.connections[2]
    /\ Len(gui.stands) = 2
    /\ gui.stands[1].name = "s1" /\ gui.stands[2].name = "s3"
    /\ gui.stands[2].syntax = MONGO

\* C18: every worker is always blocked on the dequeue or executing a task:
\* no outcome of a task ends a worker thread.
C18_WorkerPoolFixed ==
    \A w \in Workers :
        worker[w].pc \in {"get", "connect", "open", "fetch", "reconnect", "rconnect",
                          "ropen", "exec", "save"}

\* C19: the queue holds the tasks in the order of their submissions and,
\* within a submission, of the selected stands; a put appends at the end and
\* a dequeue takes the oldest task, so no task is dequeued before a task
\* that was enqueued earlier and is still queued.
C19_QueueIsFifo ==
    /\ [](\A i, j \in 1..Len(q) : i < j => enqueued_before(q[i], q[j]))
    /\ [][/\ Len(q') < Len(q) =>
                /\ q' = Tail(q)
                /\ \E w \in Workers :
                      /\ worker[w].pc = "get" /\ worker'[w].task = Head(q)
                      /\ \A i \in 1..Len(q') : enqueued_before(worker'[w].task, q'[i])
          /\ Len(q') > Len(q) => Len(q') = Len(q) + 1 /\ SubSeq(q', 1, Len(q)) = q
          /\ Len(q') = Len(q) => q' = q]_vars

C19_Witness ==
    /\ Len(q) = 2
    /\ q[1].query_id = 1 /\ q[2].query_id = 2
    /\ \E w \in Workers :
          /\ worker[w].pc = "connect"
          /\ worker[w].task.query_id = 1
          /\ enqueued_before(worker[w].task, q[1])

\* C20: a worker's Storage handle is its own, and it is closed again on
\* every path out of save_result: a worker that is not inside save_result
\* holds no open handle.
C20_StorageHandlePerOperation ==
    \A w \in Workers : worker[w].pc # "save" => worker[w].storage # "open"

\* C21: a listed query's content is the stored text with line breaks
\* replaced by spaces, in full and without an ellipsis when the text is no
\* longer than 50 characters, and its first 50 characters followed by "..."
\* when it is longer.
C21_PreviewEllipsisIffTruncated ==
    gui.pc = "results" =>
        \A i \in 1..Len(gui.displayed_results) :
            LET row == gui.displayed_results[i]
                content == user_query[row.id].content
                flat == [k \in 1..Len(content) |->
                            IF content[k] = "\n" THEN " " ELSE content[k]]
            IN  row.content =
                   IF Len(content) <= 50 THEN flat
                   ELSE SubSeq(flat, 1, 50) \o <<".", ".", ".">>

\* C22: for every query the number of its Result rows is at most the number
\* of tasks enqueued for it, which is at most the number of stands selected
\* at its submission; a listed progress "running (c/n)" has 0 <= c < n; every
\* Result row refers to a persisted Query row.
C22_ResultsBoundedByTasks ==
    /\ \A query_id \in QueryIds :
          /\ result_count(query_id) <= enqueued_of(query_id)
          /\ enqueued_of(query_id) <= Len(hist.sel[query_id])
    /\ \A i \in 1..Len(latest_queries) :
          LET label == latest_queries[i].progress
          IN  Head(label) = "running (" => 0 <= label[2] /\ label[2] < label[4]
    /\ \A r \in BagToSet(query_result) : r.query_id \in QueryIds

C22_Witness ==
    \E query_id \in QueryIds :
        /\ Len(hist.sel[query_id]) = 2
        /\ enqueued_of(query_id) = 2
        /\ result_count(query_id) = 1
        /\ \E i \in 1..Len(latest_queries) :
              /\ latest_queries[i].id = query_id
              /\ latest_queries[i].progress = <<"running (", 1, "/", 2, ")">>

\* C23: the progress label of a query only moves forward: its count of
\* Result rows never decreases, a query listed as done stays done, a query
\* listed as incomplete stays incomplete (also after all its enqueued tasks
\* have produced results), and a done query never becomes incomplete.
C23_ProgressOnlyForward ==
    [][query_result' # query_result \/ user_query' # user_query
       => \A query_id \in QueryIds :
            LET c == result_count(query_id)
                c_after == result_count(query_id)'
                before == progress(user_query[query_id].stands_number, c)
                after == progress(user_query'[query_id].stands_number, c_after)
            IN  /\ c_after >= c
                /\ ( /\ Head(before) = "running (" /\ Head(after) = "running (" )
                   => after[2] >= before[2] /\ after[4] = before[4]
                /\ before = <<"done">> => after = <<"done">>
                /\ before = <<"queue is full">> => after = <<"queue is full">>]_vars

C23_Witness ==
    \E query_id \in QueryIds :
        /\ cut_short(query_id)
        /\ enqueued_of(query_id) >= 1
        /\ result_count(query_id) = enqueued_of(query_id)
        /\ progress(user_query[query_id].stands_number, result_count(query_id))
              = <<"queue is full">>
        /\ \E other \in QueryIds :
              progress(user_query[other].stands_number, result_count(other))
                 = <<"done">>

\* C24: no backend connection is leaked: on every stand the connections
\* that were opened and not yet closed are at most one, the one the adapter
\* currently references.
C24_NoConnectionLeaked ==
    \A s \in StandNames :
        /\ Cardinality(open[s]) <= 1
        /\ \A c \in open[s] : c.id = db[s].connection

====
